---------------------------- MODULE Spec2Model ----------------------------
(***************************************************************************)
(* Model of diffusion_policy_3d/model/vision/pointnet_extractor.py:        *)
(* create_mlp, PointNetEncoderXYZRGB, PointNetEncoderXYZ and DP3Encoder.   *)
(*                                                                         *)
(* A module (nn.Sequential) is a sequence of layer records; a tensor is    *)
(* its shape together with the meaning of each axis; an observation space  *)
(* and an observation bundle are functions from modality names to shapes   *)
(* and tensors.  A Python exception is an err / status field naming it.    *)
(***************************************************************************)
EXTENDS Integers, Sequences, FiniteSets

VARIABLES
    pc,       \* "start", "constructed" or "failed": life of the DP3Encoder
    args,     \* the arguments DP3Encoder.__init__ was called with
    ctor,     \* what __init__ left behind: err, the encoder, the modules built
    bundle,   \* the caller's observation dictionary (HasBundle / tensors)
    out,      \* what the last DP3Encoder.forward call returned or raised
    pn_args,  \* the arguments a stand-alone point-cloud encoder was built with
    pn,       \* what that constructor left behind: err and the encoder
    cloud,    \* the point cloud (values) given to the stand-alone encoder
    pn_out,   \* its forward result on cloud
    pn_perm   \* its forward result on a permutation of cloud

vars == <<pc, args, ctor, bundle, out, pn_args, pn, cloud, pn_out, pn_perm>>
dp3vars == <<pc, args, ctor, bundle, out>>
pnvars == <<pn_args, pn, cloud, pn_out, pn_perm>>

(***************************************************************************)
(* Bounds of the model.                                                    *)
(***************************************************************************)
MaxPoints == 2      \* real and imagined clouds hold 1..MaxPoints points
Batch == 2          \* batch size of every observation bundle
MaxCloud == 3       \* the stand-alone encoder's clouds hold 1..MaxCloud points
Probe == 2          \* leading channels of a latent whose values are tracked

(***************************************************************************)
(* Layers and modules.                                                     *)
(***************************************************************************)
Linear(i, o) == [op |-> "Linear", in |-> i, out |-> o]
LayerNorm(n) == [op |-> "LayerNorm", in |-> n, out |-> n]
Identity == [op |-> "Identity", in |-> 0, out |-> 0]
ReLU == [op |-> "ReLU", in |-> 0, out |-> 0]
Tanh == [op |-> "Tanh", in |-> 0, out |-> 0]

Last(s) == s[Len(s)]
Front(s) == SubSeq(s, 1, Len(s) - 1)

\* The width a module produces on an input whose last dimension is w;
\* -1 when a layer rejects the width it is given (a shape error in torch).
RECURSIVE ModuleOut(_, _)
ModuleOut(layers, w) ==
    IF layers = <<>> \/ w = -1 THEN w
    ELSE LET l == Head(layers) IN
         IF l.op \in {"Linear", "LayerNorm"}
         THEN IF w = l.in THEN ModuleOut(Tail(layers), l.out) ELSE -1
         ELSE ModuleOut(Tail(layers), w)

\* create_mlp: the hidden layers net_arch[idx] -> net_arch[idx+1], each
\* followed by the activation.
RECURSIVE HiddenLayers(_, _)
HiddenLayers(net_arch, idx) ==
    IF idx > Len(net_arch) - 1 THEN <<>>
    ELSE <<Linear(net_arch[idx], net_arch[idx + 1]), ReLU>>
         \o HiddenLayers(net_arch, idx + 1)

create_mlp(input_dim, output_dim, net_arch, squash_output) ==
    LET first == IF Len(net_arch) > 0
                 THEN <<Linear(input_dim, net_arch[1]), ReLU>>
                 ELSE <<>>
        last_layer_dim == IF Len(net_arch) > 0 THEN Last(net_arch)
                          ELSE input_dim
        final == IF output_dim > 0 THEN <<Linear(last_layer_dim, output_dim)>>
                 ELSE <<>>
        squash == IF squash_output THEN <<Tanh>> ELSE <<>>
    IN  first \o HiddenLayers(net_arch, 1) \o final \o squash

(***************************************************************************)
(* The point-cloud encoders.                                               *)
(***************************************************************************)
NoTensor == [shape |-> <<>>, axes |-> <<>>]

NoModule ==
    [variant |-> "None", mlp |-> <<>>, final_projection |-> <<>>,
     hooks |-> FALSE, gradient |-> NoTensor, feature |-> NoTensor,
     input_pointcloud |-> NoTensor]

block_channel_XYZRGB == <<64, 128, 256, 512>>
block_channel_XYZ == <<64, 128, 256>>

Norm(use_layernorm, n) == IF use_layernorm THEN LayerNorm(n) ELSE Identity

\* The final_norm branch shared by both constructors: the module built, or
\* <<>> when final_norm is neither 'layernorm' nor 'none' (NotImplementedError).
FinalNormProjection(final_norm, width, out_channels) ==
    IF final_norm = "layernorm"
    THEN <<Linear(width, out_channels), LayerNorm(out_channels)>>
    ELSE IF final_norm = "none"
    THEN <<Linear(width, out_channels)>>
    ELSE <<>>

VIS_WITH_GRAD_CAM_enabled == TRUE

VIS_WITH_GRAD_CAM == FALSE

PointNetEncoderXYZRGB(in_channels, out_channels, use_layernorm, final_norm, use_projection) ==
    LET bc == block_channel_XYZRGB
        mlp == <<Linear(in_channels, bc[1]), Norm(use_layernorm, bc[1]), ReLU,
                 Linear(bc[1], bc[2]), Norm(use_layernorm, bc[2]), ReLU,
                 Linear(bc[2], bc[3]), Norm(use_layernorm, bc[3]), ReLU,
                 Linear(bc[3], bc[4])>>
        fp == FinalNormProjection(final_norm, Last(bc), out_channels)
    IN  IF fp = <<>>
        THEN [err |-> "NotImplementedError", enc |-> NoModule]
        ELSE [err |-> "none",
              enc |-> [variant |-> "XYZRGB", mlp |-> mlp,
                       final_projection |-> fp, hooks |-> FALSE,
                       gradient |-> NoTensor, feature |-> NoTensor,
                       input_pointcloud |-> NoTensor]]

PointNetEncoderXYZ(in_channels, out_channels, use_layernorm, final_norm, use_projection) ==
    LET bc == block_channel_XYZ
        mlp == <<Linear(in_channels, bc[1]), Norm(use_layernorm, bc[1]), ReLU,
                 Linear(bc[1], bc[2]), Norm(use_layernorm, bc[2]), ReLU,
                 Linear(bc[2], bc[3]), Norm(use_layernorm, bc[3]), ReLU>>
        fp == FinalNormProjection(final_norm, Last(bc), out_channels)
    IN  IF in_channels # 3
        THEN [err |-> "AssertionError", enc |-> NoModule]
        ELSE IF fp = <<>>
        THEN [err |-> "NotImplementedError", enc |-> NoModule]
        ELSE [err |-> "none",
              enc |-> [variant |-> "XYZ", mlp |-> mlp,
                       final_projection |->
                           IF use_projection THEN fp ELSE <<Identity>>,
                       hooks |-> VIS_WITH_GRAD_CAM,
                       gradient |-> NoTensor, feature |-> NoTensor,
                       input_pointcloud |-> NoTensor]]

\* The constructor call PointNetEncoderXYZ(**cfg) / PointNetEncoderXYZRGB(**cfg).
NewPointNetEncoder(variant, a) ==
    IF variant = "XYZRGB"
    THEN PointNetEncoderXYZRGB(a.in_channels, a.out_channels, a.use_layernorm,
                               a.final_norm, a.use_projection)
    ELSE PointNetEncoderXYZ(a.in_channels, a.out_channels, a.use_layernorm,
                            a.final_norm, a.use_projection)

(***************************************************************************)
(* Tensors: a shape and what each axis is.                                 *)
(***************************************************************************)
Tensor(shape, axes) == [shape |-> shape, axes |-> axes]

Rank(t) == Len(t.shape)

SliceLast_whole(t, c) == t

\* t[..., :c]
SliceLast(t, c) ==
    LET n == Rank(t)
    IN  Tensor([i \in 1..n |-> IF i = n /\ t.shape[i] > c THEN c ELSE t.shape[i]], t.axes)

\* torch.cat([a, b], dim) is defined when the ranks agree and every other
\* dimension agrees; dim is a 1-based position here.
CanCat(a, b, dim) ==
    /\ Rank(a) = Rank(b)
    /\ dim \in 1..Rank(a)
    /\ \A i \in 1..Rank(a) : i # dim => a.shape[i] = b.shape[i]

Cat(a, b, dim) ==
    Tensor([i \in 1..Rank(a) |-> IF i = dim THEN a.shape[i] + b.shape[i] ELSE a.shape[i]], a.axes)

\* t.transpose(i, j), positions 1-based.
Transpose(t, i, j) ==
    LET sw(s) == [k \in 1..Len(s) |-> IF k = i THEN s[j] ELSE IF k = j THEN s[i] ELSE s[k]]
    IN  Tensor(sw(t.shape), sw(t.axes))

\* t.unsqueeze(1): a new axis of size 1 at 0-based position 1.
Unsqueeze1(t) ==
    Tensor(<<t.shape[1], 1>> \o Tail(t.shape), <<t.axes[1], "C">> \o Tail(t.axes))

\* torch.max(x, 1)[0]: the point dimension is removed.
MaxOverDim1(shape) == <<shape[1]>> \o SubSeq(shape, 3, Len(shape))

\* The shape PointNetEncoderXYZ.forward / PointNetEncoderXYZRGB.forward
\* returns on an input of shape s, <<>> when an operation rejects it.
PointNetForwardShape(e, s) ==
    LET w1 == ModuleOut(e.mlp, Last(s))
        pooled == MaxOverDim1(Front(s) \o <<w1>>)
        w2 == ModuleOut(e.final_projection, Last(pooled))
    IN  IF Len(s) < 2 \/ w1 = -1 THEN <<>>
        ELSE IF s[2] = 0 \/ w2 = -1 THEN <<>>
        ELSE Front(pooled) \o <<w2>>

\* The forward hooks of the grad-cam visualisation: save_input on mlp[0],
\* save_feature on mlp[6]; they run only when they were registered.
PointNetAfterForward(e, x) ==
    IF e.hooks
    THEN [e EXCEPT !.input_pointcloud = x,
                   !.feature = Tensor(Front(x.shape) \o <<ModuleOut(SubSeq(e.mlp, 1, 7), Last(x.shape))>>, x.axes)]
    ELSE e

(***************************************************************************)
(* The point-cloud encoders on values.  A vector is its width and the      *)
(* values of its leading channels: the learned parameters are fixed, with  *)
(* the weights of every Linear and LayerNorm zero outside the leading      *)
(* Probe output channels, so that the channels not tracked are zero.       *)
(* LayerNorm centres on the mean; the division by the deviation, a         *)
(* positive factor per point, is left out.                                 *)
(***************************************************************************)
Vec(width, v) == [width |-> width, v |-> v]

\* The parameters of the k-th layer of a module.
Weight(k, j, i) == ((k + 2 * j + 3 * i) % 5) - 2
Bias(k, j) == ((k + j) % 3) - 1

RECURSIVE Sum(_)
Sum(v) == IF v = <<>> THEN 0 ELSE Head(v) + Sum(Tail(v))

Min(a, b) == IF a < b THEN a ELSE b
Max(a, b) == IF a > b THEN a ELSE b

\* sum over i >= n of Weight(k, j, i) * v[i]
RECURSIVE Dot(_, _, _, _)
Dot(k, j, v, n) == IF n > Len(v) THEN 0 ELSE Weight(k, j, n) * v[n] + Dot(k, j, v, n + 1)

\* The output channels j..m of the k-th layer, a Linear, on the values v.
RECURSIVE LinearRows(_, _, _, _)
LinearRows(k, v, j, m) ==
    IF j > m THEN <<>> ELSE <<Bias(k, j) + Dot(k, j, v, 1)>> \o LinearRows(k, v, j + 1, m)

LinearValue(k, l, x) == Vec(l.out, LinearRows(k, x.v, 1, Min(l.out, Probe)))

RECURSIVE Shifted(_, _)
Shifted(v, mean) == IF v = <<>> THEN <<>> ELSE <<Head(v) - mean>> \o Shifted(Tail(v), mean)

LayerNormValue(l, x) == Vec(x.width, Shifted(x.v, Sum(x.v) \div x.width))

RECURSIVE Rectified(_)
Rectified(v) == IF v = <<>> THEN <<>> ELSE <<Max(Head(v), 0)>> \o Rectified(Tail(v))

ReLUValue(x) == Vec(x.width, Rectified(x.v))

BadVec == Vec(-1, <<>>)

\* layers[k..] applied to the vector x.
RECURSIVE ModuleValue(_, _, _)
ModuleValue(layers, k, x) ==
    IF k > Len(layers) \/ x = BadVec THEN x
    ELSE LET l == layers[k] IN
         IF l.op = "Linear"
         THEN IF x.width = l.in THEN ModuleValue(layers, k + 1, LinearValue(k, l, x)) ELSE BadVec
         ELSE IF l.op = "LayerNorm"
         THEN IF x.width = l.in THEN ModuleValue(layers, k + 1, LayerNormValue(l, x)) ELSE BadVec
         ELSE IF l.op = "ReLU" THEN ModuleValue(layers, k + 1, ReLUValue(x))
         ELSE ModuleValue(layers, k + 1, x)

\* A module applied to each vector of a sequence.
RECURSIVE ModuleEach(_, _)
ModuleEach(layers, xs) ==
    IF xs = <<>> THEN <<>> ELSE <<ModuleValue(layers, 1, Head(xs))>> \o ModuleEach(layers, Tail(xs))

\* The element-wise maximum of two value sequences of one length.
RECURSIVE MaxEach(_, _)
MaxEach(v, w) ==
    IF v = <<>> THEN <<>> ELSE <<Max(Head(v), Head(w))>> \o MaxEach(Tail(v), Tail(w))

\* The element-wise maximum of the vectors of a non-empty sequence.
RECURSIVE MaxOver(_)
MaxOver(vs) ==
    IF Len(vs) = 1 THEN vs[1]
    ELSE Vec(vs[1].width, MaxEach(vs[1].v, MaxOver(Tail(vs)).v))

RECURSIVE MaxPool_first(_)
MaxPool_first(x) == IF x = <<>> THEN <<>> ELSE <<Head(x)[1]>> \o MaxPool_first(Tail(x))

\* torch.max(x, 1)[0] of a batch x of sequences of per-point vectors.
RECURSIVE MaxPool(_)
MaxPool(x) == IF x = <<>> THEN <<>> ELSE <<MaxOver(Head(x))>> \o MaxPool(Tail(x))

\* A cloud as the sequence of its points' vectors.
RECURSIVE PointVecs(_)
PointVecs(c) == IF c = <<>> THEN <<>> ELSE <<Vec(Len(Head(c)), Head(c))>> \o PointVecs(Tail(c))

\* self.mlp applied to every point of every cloud of the batch.
RECURSIVE PerPoint(_, _)
PerPoint(e, x) ==
    IF x = <<>> THEN <<>> ELSE <<ModuleEach(e.mlp, PointVecs(Head(x)))>> \o PerPoint(e, Tail(x))

\* forward(x) of either encoder on a batch x of clouds, a cloud a sequence
\* of points, a point the sequence of its channel values.
PointNetForward(e, x) ==
    LET lat == PerPoint(e, x)
        bad == \E b \in 1..Len(x) : Len(x[b]) = 0 \/ \E n \in 1..Len(x[b]) : lat[b][n] = BadVec
    IN  IF bad THEN [status |-> "RuntimeError", feat |-> <<>>]
        ELSE LET feat == ModuleEach(e.final_projection, MaxPool(lat))
             IN  IF \E b \in 1..Len(x) : feat[b] = BadVec
                 THEN [status |-> "RuntimeError", feat |-> <<>>]
                 ELSE [status |-> "ok", feat |-> feat]

(***************************************************************************)
(* DP3Encoder.__init__                                                     *)
(***************************************************************************)
imagination_key == "imagin_robot"
state_key == "agent_pos"
point_cloud_key == "point_cloud"
rgb_image_key == "image"

\* The image-encoder factory of diffusion_policy_3d.model.vision.images: a
\* module for inputs of shape (batch,) + shape that returns feature_dim
\* features per batch element.
get_dp_image_encoder(shape, feature_dim) == [dims |-> shape, out |-> feature_dim]

NoImageEncoder == [dims |-> <<>>, out |-> 0]

NoEncoder ==
    [use_pointcloud |-> FALSE, use_image |-> FALSE, use_depth_image |-> FALSE,
     use_segmentations |-> FALSE, use_imagined_robot |-> FALSE,
     point_cloud_shape |-> <<>>, rgb_image_shape |-> <<>>, state_shape |-> <<>>,
     imagination_shape |-> <<>>, n_output_channels |-> 0,
     image_encoder |-> NoImageEncoder, extractor |-> NoModule, state_mlp |-> <<>>]

Raise(e, built) == [err |-> e, enc |-> NoEncoder, built |-> built]

int(b) == IF b THEN 1 ELSE 0

\* Lines 254-259: the image encoder and its share of n_output_channels.
InitImage(a) ==
    IF a.use_image \/ a.use_depth_image
    THEN LET shp == a.observation_space[rgb_image_key]
             channels == (shp[1] + int(a.use_depth_image) + int(a.use_segmentations) * 2) * a.n_cameras
         IN  [image_encoder |-> get_dp_image_encoder(<<channels>> \o Tail(shp), a.out_channel),
              n |-> a.out_channel + a.out_channel, built |-> {"image_encoder"}]
    ELSE [image_encoder |-> NoImageEncoder, n |-> a.out_channel, built |-> {}]

\* Lines 262-273: the point-cloud encoder, or the width taken back.
InitPointCloud(a, n) ==
    IF a.use_pointcloud
    THEN IF a.pointnet_type = "pointnet"
         THEN LET r == IF a.use_pc_color
                       THEN NewPointNetEncoder("XYZRGB", [a.cfg EXCEPT !.in_channels = 6])
                       ELSE NewPointNetEncoder("XYZ", [a.cfg EXCEPT !.in_channels = 3])
              IN  [err |-> r.err, extractor |-> r.enc, n |-> n]
         ELSE [err |-> "NotImplementedError", extractor |-> NoModule, n |-> n]
    ELSE [err |-> "none", extractor |-> NoModule, n |-> n - a.out_channel]

\* Lines 276-285: the state MLP.
InitState(a, n) ==
    LET sz == a.state_mlp_size
        net_arch == IF Len(sz) = 1 THEN <<>> ELSE Front(sz)
        output_dim == Last(sz)
    IN  IF Len(sz) = 0
        THEN [err |-> "RuntimeError", state_mlp |-> <<>>, n |-> n]
        ELSE [err |-> "none",
              state_mlp |-> create_mlp(a.observation_space[state_key][1], output_dim, net_arch, FALSE),
              n |-> n + output_dim]

ImageModesExclusive_unchecked(a) == TRUE

\* Line 229: the condition asserted on the two image modes.
ImageModesExclusive(a) == ~ (a.use_image /\ a.use_depth_image)

DP3Encoder(a) ==
    LET keys == DOMAIN a.observation_space
        img == InitImage(a)
        pcl == InitPointCloud(a, img.n)
        st == InitState(a, pcl.n)
        b2 == IF a.use_pointcloud THEN img.built \cup {"extractor"} ELSE img.built
    IN  IF ~ ImageModesExclusive(a) THEN Raise("AssertionError", {})
        ELSE IF ~ ({point_cloud_key, rgb_image_key, state_key} \subseteq keys) THEN Raise("KeyError", {})
        ELSE IF pcl.err # "none" THEN Raise(pcl.err, img.built)
        ELSE IF st.err # "none" THEN Raise(st.err, b2)
        ELSE [err |-> "none",
              built |-> b2 \cup {"state_mlp"},
              enc |-> [use_pointcloud |-> a.use_pointcloud, use_image |-> a.use_image,
                       use_depth_image |-> a.use_depth_image,
                       use_segmentations |-> a.use_segmentations,
                       use_imagined_robot |-> imagination_key \in keys,
                       point_cloud_shape |-> a.observation_space[point_cloud_key],
                       rgb_image_shape |-> a.observation_space[rgb_image_key],
                       state_shape |-> a.observation_space[state_key],
                       imagination_shape |-> IF imagination_key \in keys
                                             THEN a.observation_space[imagination_key] ELSE <<>>,
                       n_output_channels |-> st.n,
                       image_encoder |-> img.image_encoder,
                       extractor |-> pcl.extractor,
                       state_mlp |-> st.state_mlp]]

output_shape(e) == e.n_output_channels

(***************************************************************************)
(* DP3Encoder.forward                                                      *)
(***************************************************************************)
\* Lines 292-302.  A missing entry is a KeyError, a cloud that is not rank 3
\* fails the assertion, and torch rejects a concatenation or a linear layer
\* whose shapes disagree (RuntimeError).
ForwardPointCloud(e, obs) ==
    LET fail(st) == [status |-> st, feat |-> <<>>, pn_input |-> NoTensor, extractor |-> e.extractor]
        points == obs[point_cloud_key]
        img_points == SliceLast(obs[imagination_key], Last(points.shape))
        x == IF e.use_imagined_robot THEN Cat(points, img_points, 2) ELSE points
        pn_feat == PointNetForwardShape(e.extractor, x.shape)
    IN  IF ~ e.use_pointcloud
        THEN [status |-> "skipped", feat |-> <<>>, pn_input |-> NoTensor, extractor |-> e.extractor]
        ELSE IF point_cloud_key \notin DOMAIN obs THEN fail("KeyError")
        ELSE IF Rank(points) # 3 THEN fail("AssertionError")
        ELSE IF e.use_imagined_robot /\ imagination_key \notin DOMAIN obs THEN fail("KeyError")
        ELSE IF e.use_imagined_robot /\ ~ CanCat(points, img_points, 2) THEN fail("RuntimeError")
        ELSE IF pn_feat = <<>>
        THEN [status |-> "RuntimeError", feat |-> <<>>, pn_input |-> x,
              extractor |-> IF ModuleOut(SubSeq(e.extractor.mlp, 1, 1), Last(x.shape)) = -1
                            THEN e.extractor
                            ELSE PointNetAfterForward(e.extractor, x)]
        ELSE [status |-> "ok", feat |-> pn_feat, pn_input |-> x,
              extractor |-> PointNetAfterForward(e.extractor, x)]

\* Line 305: the name under which forward looks the image up.
forward_image_key == "img"

\* Lines 306-307: a trailing dimension of size 3 is taken for the channel
\* axis and exchanged with dimension 1.
ChannelLeading(images) ==
    IF Last(images.shape) = 3 THEN Transpose(images, 2, Rank(images)) ELSE images

\* The image encoder applied to a batch: it accepts the shape it was built for.
ImageEncoderForward(ie, images) ==
    IF Rank(images) = 4 /\ Tail(images.shape) = ie.dims THEN <<images.shape[1], ie.out>> ELSE <<>>

\* Lines 304-319.
ForwardImage(e, obs) ==
    LET res(st, f, im) == [status |-> st, feat |-> f, images |-> im]
        images == ChannelLeading(obs[forward_image_key])
        depth == Unsqueeze1(obs["depth"])
        im2 == IF e.use_depth_image THEN Cat(images, depth, 2) ELSE images
        seg == obs["segmentations"]
        im3 == IF e.use_segmentations THEN Cat(im2, seg, 2) ELSE im2
        img_feats == ImageEncoderForward(e.image_encoder, im3)
    IN  IF ~ (e.use_image \/ e.use_depth_image) THEN res("skipped", <<>>, NoTensor)
        ELSE IF forward_image_key \notin DOMAIN obs THEN res("KeyError", <<>>, NoTensor)
        ELSE IF Rank(images) < 2 THEN res("RuntimeError", <<>>, NoTensor)
        ELSE IF e.use_depth_image /\ "depth" \notin DOMAIN obs THEN res("KeyError", <<>>, images)
        ELSE IF e.use_depth_image /\ ~ CanCat(images, depth, 2) THEN res("RuntimeError", <<>>, images)
        ELSE IF e.use_segmentations /\ "segmentations" \notin DOMAIN obs THEN res("KeyError", <<>>, images)
        ELSE IF e.use_segmentations /\ ~ CanCat(im2, seg, 2) THEN res("RuntimeError", <<>>, images)
        ELSE IF img_feats = <<>> THEN res("RuntimeError", <<>>, images)
        ELSE res("ok", img_feats, images)

\* Lines 321-323.
ForwardState(e, obs) ==
    LET state == obs[state_key]
        w == ModuleOut(e.state_mlp, Last(state.shape))
    IN  IF state_key \notin DOMAIN obs THEN [status |-> "KeyError", feat |-> <<>>]
        ELSE IF Rank(state) < 1 \/ w = -1 THEN [status |-> "RuntimeError", feat |-> <<>>]
        ELSE [status |-> "ok", feat |-> Front(state.shape) \o <<w>>]

\* torch.cat(features, dim=-1) of the feature shapes collected, <<>> when
\* the shapes disagree outside the last dimension.
RECURSIVE CatFeatures(_)
CatFeatures(features) ==
    IF Len(features) = 1 THEN features[1]
    ELSE LET rest == CatFeatures(Tail(features))
             f == features[1]
         IN  IF rest = <<>> \/ Len(f) # Len(rest) \/ Front(f) # Front(rest) THEN <<>>
             ELSE Front(f) \o <<Last(f) + Last(rest)>>

\* DP3Encoder.forward(observations): the value returned or the exception
\* raised, the tensors handed to the sub-encoders, the encoder and the
\* caller's dictionary as the call leaves them.
forward(e, obs) ==
    LET p == ForwardPointCloud(e, obs)
        i == ForwardImage(e, obs)
        s == ForwardState(e, obs)
        after == [e EXCEPT !.extractor = p.extractor]
        res(st, shp, im) == [status |-> st, shape |-> shp, pn_input |-> p.pn_input,
                             images |-> im, enc |-> after, observations |-> obs]
        features == (IF p.status = "ok" THEN <<p.feat>> ELSE <<>>)
                    \o (IF i.status = "ok" THEN <<i.feat>> ELSE <<>>) \o <<s.feat>>
        final_feat == CatFeatures(features)
    IN  IF p.status \notin {"ok", "skipped"} THEN res(p.status, <<>>, NoTensor)
        ELSE IF i.status \notin {"ok", "skipped"} THEN res(i.status, <<>>, i.images)
        ELSE IF s.status # "ok" THEN res(s.status, <<>>, i.images)
        ELSE IF final_feat = <<>> THEN res("RuntimeError", <<>>, i.images)
        ELSE res("ok", final_feat, i.images)

(***************************************************************************)
(* Inputs: constructor arguments and observation bundles.                  *)
(***************************************************************************)
\* A dictionary from a set of <<key, value>> pairs with distinct keys.
Dict(pairs) == [k \in {p[1] : p \in pairs} |-> (CHOOSE p \in pairs : p[1] = k)[2]]

ImageShape == <<3, 2, 3>>       \* channels, height, width

ObservationSpaces ==
    { Dict({<<state_key, <<7>> >>} \cup pcl \cup img \cup ima) :
        pcl \in {{}, {<<point_cloud_key, <<MaxPoints, 3>> >>}},
        img \in {{}, {<<rgb_image_key, ImageShape>>}},
        ima \in {{}, {<<imagination_key, <<MaxPoints, 3>> >>}} }

FullObservationSpaces ==
    { os \in ObservationSpaces : {point_cloud_key, rgb_image_key} \subseteq DOMAIN os }

PointCloudCfgs ==
    [in_channels : {3}, out_channels : {128, 256}, use_layernorm : BOOLEAN,
     final_norm : {"none", "layernorm", "batchnorm"}, use_projection : BOOLEAN]

\* Every combination of constructor arguments.
AllArgs ==
    [observation_space : ObservationSpaces, out_channel : {128, 256},
     state_mlp_size : {<<>>, <<64>>, <<64, 64>>}, cfg : PointCloudCfgs,
     use_pc_color : BOOLEAN, pointnet_type : {"pointnet", "mlp"}, n_cameras : {1, 2},
     use_pointcloud : BOOLEAN, use_image : BOOLEAN, use_depth_image : BOOLEAN,
     use_segmentations : BOOLEAN]

\* The default widths, every combination of modalities.
ModalityArgs ==
    [observation_space : FullObservationSpaces, out_channel : {256},
     state_mlp_size : {<<64, 64>>},
     cfg : [in_channels : {3}, out_channels : {256}, use_layernorm : {FALSE},
            final_norm : {"none"}, use_projection : BOOLEAN],
     use_pc_color : BOOLEAN, pointnet_type : {"pointnet"}, n_cameras : {1},
     use_pointcloud : BOOLEAN, use_image : BOOLEAN, use_depth_image : BOOLEAN,
     use_segmentations : BOOLEAN]

NoArgs == CHOOSE a \in ModalityArgs : TRUE

PointsT(n, c) == Tensor(<<Batch, n, c>>, <<"B", "N", "C">>)

\* An image of height h and width w, channel-leading or channel-last.
ImageT(layout, h, w) ==
    IF layout = "BCHW" THEN Tensor(<<Batch, 3, h, w>>, <<"B", "C", "H", "W">>)
    ELSE Tensor(<<Batch, h, w, 3>>, <<"B", "H", "W", "C">>)

DepthT(h, w) == Tensor(<<Batch, h, w>>, <<"B", "H", "W">>)
SegT(h, w) == Tensor(<<Batch, 2, h, w>>, <<"B", "C", "H", "W">>)
StateT == Tensor(<<Batch, 7>>, <<"B", "S">>)

\* The entries of a bundle that go with an image: the image under one of
\* the two names, with or without depth and segmentations of the same size.
ImageEntriesOf(h, w) ==
    { {<<k, ImageT(layout, h, w)>>} \cup extra :
        k \in {rgb_image_key, forward_image_key}, layout \in {"BCHW", "BHWC"},
        extra \in {{}, {<<"depth", DepthT(h, w)>>, <<"segmentations", SegT(h, w)>>}} }

ImageEntries == {{}} \cup ImageEntriesOf(2, 2) \cup ImageEntriesOf(2, 3)

PointEntries(key) ==
    {{}} \cup { {<<key, PointsT(n, c)>>} : n \in 1..MaxPoints, c \in {3, 6} }

\* Bundles with any entry present or missing, clouds of every size, and a
\* cloud without its batch dimension.
AllBundles ==
    { Dict(p \cup m \cup i \cup s) :
        p \in PointEntries(point_cloud_key)
              \cup {{<<point_cloud_key, Tensor(<<MaxPoints, 3>>, <<"N", "C">>)>>}},
        m \in PointEntries(imagination_key),
        i \in ImageEntries,
        s \in {{}, {<<state_key, StateT>>}} }

\* Bundles that carry every entry, the image of the size ImageShape.
FullBundles ==
    { Dict({<<point_cloud_key, PointsT(MaxPoints, c)>>, <<imagination_key, PointsT(1, c)>>,
            <<k, ImageT("BCHW", ImageShape[2], ImageShape[3])>>,
            <<"depth", DepthT(ImageShape[2], ImageShape[3])>>,
            <<"segmentations", SegT(ImageShape[2], ImageShape[3])>>,
            <<state_key, StateT>>}) :
        c \in {3, 6}, k \in {rgb_image_key, forward_image_key} }

(***************************************************************************)
(* The state machine.                                                      *)
(***************************************************************************)
NoOut == [status |-> "none", shape |-> <<>>, pn_input |-> NoTensor, images |-> NoTensor]
\* x[:, f]: the points f[n], f[n+1], ... of the cloud x.
RECURSIVE Permuted(_, _, _)
Permuted(x, f, n) == IF n > Len(x) THEN <<>> ELSE <<x[f[n]]>> \o Permuted(x, f, n + 1)

NoResult == [status |-> "none", feat |-> <<>>, input |-> <<>>]
NoPointNet == [err |-> "unbuilt", enc |-> NoModule]
NoPnArgs == [variant |-> "None", in_channels |-> 0, out_channels |-> 0, use_layernorm |-> FALSE, final_norm |-> "none", use_projection |-> FALSE]

InitDP3 ==
    /\ pc = "start"
    /\ args = NoArgs
    /\ ctor = [err |-> "unbuilt", enc |-> NoEncoder, built |-> {}]
    /\ bundle = <<>>
    /\ out = NoOut

InitPN ==
    /\ pn_args = NoPnArgs
    /\ pn = NoPointNet
    /\ cloud = <<>>
    /\ pn_out = NoResult
    /\ pn_perm = NoResult

Init == InitDP3 /\ InitPN

\* encoder = DP3Encoder(**a)
Construct(a) ==
    /\ pc = "start"
    /\ args' = a
    /\ ctor' = DP3Encoder(a)
    /\ pc' = IF ctor'.err = "none" THEN "constructed" ELSE "failed"
    /\ UNCHANGED <<bundle, out>>
    /\ UNCHANGED pnvars

\* The caller prepares the next observation bundle.
Feed(b) ==
    /\ pc = "constructed"
    /\ bundle' = b
    /\ out' = NoOut
    /\ UNCHANGED <<pc, args, ctor>>
    /\ UNCHANGED pnvars

\* encoder.forward(bundle)
Forward ==
    /\ pc = "constructed"
    /\ LET r == forward(ctor.enc, bundle)
       IN  /\ out' = [status |-> r.status, shape |-> r.shape, pn_input |-> r.pn_input, images |-> r.images]
           /\ ctor' = [ctor EXCEPT !.enc = r.enc]
           /\ bundle' = r.observations
    /\ UNCHANGED <<pc, args>>
    /\ UNCHANGED pnvars

ConstructAny == pc = "start" /\ \E a \in AllArgs : Construct(a)
FeedFull == pc = "constructed" /\ \E b \in FullBundles : Feed(b)

(***************************************************************************)
(* A point-cloud encoder used on its own.                                  *)
(***************************************************************************)
PointNetArgs ==
    [variant : {"XYZ", "XYZRGB"}, in_channels : {3, 6}, out_channels : {128, 256},
     use_layernorm : BOOLEAN, final_norm : {"none", "layernorm", "batchnorm"},
     use_projection : BOOLEAN]

\* The points a cloud is drawn from: two points of c channels.
PointValues(c) ==
    { [i \in 1..c |-> IF i = 1 THEN p[1] ELSE IF i = 2 THEN p[2] ELSE p[3]] :
        p \in {<<1, 0, -1>>, <<-1, 1, 0>>} }

Clouds(c) == UNION { [1..n -> PointValues(c)] : n \in 1..MaxCloud }

Perms(n) == { f \in [1..n -> 1..n] : \A i, j \in 1..n : f[i] = f[j] => i = j }

\* pn = PointNetEncoderXYZ(**a) or PointNetEncoderXYZRGB(**a)
NewPointNet ==
    /\ pn = NoPointNet
    /\ \E a \in PointNetArgs :
          /\ pn_args' = a
          /\ pn' = NewPointNetEncoder(a.variant, a)
    /\ UNCHANGED <<cloud, pn_out, pn_perm>>
    /\ UNCHANGED dp3vars

\* The caller's cloud, of the channel count the encoder was built for or
\* of the other one.
GiveCloud ==
    /\ pn.err = "none"
    /\ cloud = <<>>
    /\ \E c \in {3, 6} : \E x \in Clouds(c) : cloud' = x
    /\ UNCHANGED <<pn_args, pn, pn_out, pn_perm>>
    /\ UNCHANGED dp3vars

\* pn.forward(cloud), the cloud as a batch of one.
PNForward ==
    /\ pn.err = "none"
    /\ cloud # <<>>
    /\ pn_out = NoResult
    /\ LET r == PointNetForward(pn.enc, <<cloud>>)
       IN  pn_out' = [status |-> r.status, feat |-> r.feat, input |-> cloud]
    /\ UNCHANGED <<pn_args, pn, cloud, pn_perm>>
    /\ UNCHANGED dp3vars

\* pn.forward(cloud[:, perm])
PNForwardPermuted ==
    /\ pn.err = "none"
    /\ cloud # <<>>
    /\ pn_perm = NoResult
    /\ \E f \in Perms(Len(cloud)) :
          LET x == Permuted(cloud, f, 1)
              r == PointNetForward(pn.enc, <<x>>)
          IN  pn_perm' = [status |-> r.status, feat |-> r.feat, input |-> x]
    /\ UNCHANGED <<pn_args, pn, cloud, pn_out>>
    /\ UNCHANGED dp3vars

NextPointNet == NewPointNet \/ GiveCloud \/ PNForward \/ PNForwardPermuted

SpecPointNet == Init /\ [][NextPointNet]_vars

Next == ConstructAny \/ FeedFull \/ Forward

Spec == Init /\ [][Next]_vars

ConstructModalities == pc = "start" /\ \E a \in ModalityArgs : Construct(a)
\* The first bundle given to an encoder is any bundle at all.
FeedAny == pc = "constructed" /\ bundle = <<>> /\ out = NoOut /\ \E b \in AllBundles : Feed(b)

NextForward == ConstructModalities \/ FeedAny \/ FeedFull \/ Forward

SpecForward == Init /\ [][NextForward]_vars

(***************************************************************************)
(* Properties.                                                             *)
(***************************************************************************)
enc == ctor.enc

ImageMode(e) == e.use_image \/ e.use_depth_image

\* The width a point-cloud encoder returns on the clouds it accepts.
ExtractorWidth(e) == Last(PointNetForwardShape(e, <<1, 1, e.mlp[1].in>>))

\* The sum of the output widths of the sub-encoders an encoder holds.
SubEncoderWidths(e) ==
    (IF e.use_pointcloud THEN ExtractorWidth(e.extractor) ELSE 0)
    + (IF ImageMode(e) THEN e.image_encoder.out ELSE 0)
    + ModuleOut(e.state_mlp, e.state_shape[1])

\* C1: whenever construction succeeds, output_shape() is the sum of the
\* output widths of the enabled sub-encoders, and it is the last dimension
\* of what forward returns.
C1_OutputShapeIsSumOfWidths ==
    pc = "constructed" =>
        /\ output_shape(enc) = SubEncoderWidths(enc)
        /\ out.status = "ok" => Last(out.shape) = output_shape(enc)

\* Arguments that are valid apart from what the observation space holds.
ValidArgs(a) ==
    /\ ~ (a.use_image /\ a.use_depth_image)
    /\ a.pointnet_type = "pointnet"
    /\ a.cfg.final_norm \in {"none", "layernorm"}
    /\ a.state_mlp_size # <<>>

\* C2: with the point cloud enabled and both image modes disabled, an
\* observation space of only point_cloud and agent_pos constructs, and
\* forward on a bundle of only those two entries returns an embedding of
\* shape (batch, point-cloud width + state width).
C2_PointCloudOnly ==
    (/\ pc # "start"
     /\ ValidArgs(args)
     /\ args.use_pointcloud /\ ~ args.use_image /\ ~ args.use_depth_image
     /\ DOMAIN args.observation_space = {point_cloud_key, state_key})
    => /\ pc = "constructed"
       /\ (/\ out.status # "none"
           /\ DOMAIN bundle = {point_cloud_key, state_key}
           /\ bundle[point_cloud_key].shape = <<Batch, MaxPoints, enc.extractor.mlp[1].in>>)
          => /\ out.status = "ok"
             /\ out.shape = <<Batch, SubEncoderWidths(enc)>>

\* C3: construction with use_image and use_depth_image both true fails on
\* the assertion, whatever the other arguments, before any sub-encoder is
\* instantiated; with at most one of them true the assertion does not fail.
C3_BothImageModesRejected ==
    pc # "start" =>
        /\ (args.use_image /\ args.use_depth_image)
              => (pc = "failed" /\ ctor.err = "AssertionError" /\ ctor.built = {})
        /\ ~ (args.use_image /\ args.use_depth_image) => ctor.err # "AssertionError"

\* Both modes are on and every later check would fail too: no image entry,
\* an unknown encoder type, an empty state MLP.
C3_Witness ==
    /\ pc = "failed" /\ ctor.err = "AssertionError"
    /\ args.use_image /\ args.use_depth_image /\ args.use_pointcloud
    /\ rgb_image_key \notin DOMAIN args.observation_space
    /\ args.pointnet_type = "mlp"
    /\ args.state_mlp_size = <<>>

\* C4: for both encoder variants and every cloud, forward on a permutation
\* of the points returns what forward on the original ordering returns.
C4_PermutationInvariant ==
    (pn_out.status # "none" /\ pn_perm.status # "none")
    => (pn_perm.status = pn_out.status /\ pn_perm.feat = pn_out.feat)

\* A six-channel cloud of three points in another order, whose embedding
\* is the embedding of none of its points alone.
C4_Witness ==
    /\ pn_args.variant = "XYZRGB"
    /\ pn_out.status = "ok" /\ pn_perm.status = "ok"
    /\ Len(cloud) = 3
    /\ pn_perm.input # cloud
    /\ \A n \in 1..Len(cloud) : PointNetForward(pn.enc, << <<cloud[n]>> >>).feat # pn_out.feat

\* The case of C5: an encoder built with the imagined robot and the point
\* cloud, called on a bundle that carries a rank-3 cloud of C channels and
\* imagined points of at least C channels.
C5_Case ==
    /\ pc = "constructed" /\ out.status # "none"
    /\ enc.use_pointcloud /\ enc.use_imagined_robot
    /\ {point_cloud_key, imagination_key} \subseteq DOMAIN bundle
    /\ Rank(bundle[point_cloud_key]) = 3
    /\ bundle[imagination_key].shape[3] >= bundle[point_cloud_key].shape[3]

C6_ChannelCountChecked ==
    pn.err # "unbuilt" =>
        LET expected == IF pn_args.variant = "XYZ" THEN 3 ELSE 6
        IN  /\ pn_args.in_channels # expected => pn.err # "none"
            /\ pn.err = "none" => pn.enc.mlp[1].in = expected

\* C7: for both variants the final projection is the identity without
\* use_projection, one linear layer to out_channels with final_norm
\* 'none', a linear layer and a layer normalization with 'layernorm', and
\* construction fails for any other final_norm.
C7_FinalProjection ==
    (pn.err # "unbuilt" /\ pn_args.in_channels = (IF pn_args.variant = "XYZ" THEN 3 ELSE 6)) =>
        LET a == pn_args
            w == IF a.variant = "XYZ" THEN Last(block_channel_XYZ) ELSE Last(block_channel_XYZRGB)
            fp == pn.enc.final_projection
        IN  IF a.final_norm \notin {"none", "layernorm"} THEN pn.err = "NotImplementedError"
            ELSE /\ pn.err = "none"
                 /\ ~ a.use_projection => fp = <<Identity>>
                 /\ (a.use_projection /\ a.final_norm = "none") => fp = <<Linear(w, a.out_channels)>>
                 /\ (a.use_projection /\ a.final_norm = "layernorm")
                       => fp = <<Linear(w, a.out_channels), LayerNorm(a.out_channels)>>

\* The entries the modalities of an encoder need, under the names the
\* constructor uses.
NeededEntries(e) ==
    {state_key}
    \cup (IF e.use_pointcloud THEN {point_cloud_key} ELSE {})
    \cup (IF e.use_pointcloud /\ e.use_imagined_robot THEN {imagination_key} ELSE {})
    \cup (IF ImageMode(e) THEN {rgb_image_key} ELSE {})
    \cup (IF ImageMode(e) /\ e.use_depth_image THEN {"depth"} ELSE {})
    \cup (IF ImageMode(e) /\ e.use_segmentations THEN {"segmentations"} ELSE {})

\* C8: with an image mode enabled, forward reads the image under the name
\* under which the constructor read its shape, so a bundle that carries
\* the entries of the enabled modalities never fails for a missing entry.
C8_ImageReadUnderItsName ==
    (/\ pc = "constructed" /\ out.status # "none"
     /\ ImageMode(enc)
     /\ NeededEntries(enc) \subseteq DOMAIN bundle)
    => out.status # "KeyError"

C10_ForwardIsPure ==
    [][(pc = "constructed" /\ out'.status # "none")
        => /\ ctor' = ctor
           /\ bundle' = bundle
           /\ LET r == forward(enc', bundle')
              IN  r.status = out'.status /\ r.shape = out'.shape /\ r.enc = enc']_vars

\* A geometry-only encoder after a call that returned, holding no captured
\* input.
C10_Witness ==
    /\ pc = "constructed"
    /\ enc.use_pointcloud /\ enc.extractor.variant = "XYZ"
    /\ out.status = "ok"
    /\ enc.extractor.input_pointcloud = NoTensor

=============================================================================
